---------------------------- MODULE Spec2Model ----------------------------
(***************************************************************************)
(* The QEMU broker of LLVM-MCA-Daemon (plugins/qemu-broker/Broker.cpp) as  *)
(* a state machine: the receiver thread (recvWorker, addTB, tbExec,        *)
(* disassemble) and the consumer thread (fetchRegion) over the shared TB   *)
(* cache (TBs), the slice queue (TBQueue), IsEndOfStream, QueueMutex and   *)
(* QueueCV.                                                                *)
(***************************************************************************)
EXTENDS Integers, Sequences, FiniteSets, TLC

(***************************************************************************)
(* Bounds of the model                                                     *)
(***************************************************************************)
\* messages the receiver dispatches in one behaviour
MaxMsgs == 4
\* fetchRegion calls the consumer makes in one behaviour
MaxFetches == 3
\* largest Size a fetch call asks for (and the size of the MCIS buffer)
MaxN == 2
\* number of TB indices the emulator uses (0 .. MaxTB-1)
MaxTB == 1
\* messages dispatched in a behaviour of SpecRegion
RegionMsgs == 4
\* messages dispatched in a behaviour of SpecDecode
DecodeMsgs == 3
\* largest connection limit the broker is started with in SpecConn
MaxConn == 2
\* messages dispatched in a behaviour of SpecConn
ConnMsgs == 3
\* messages dispatched in a behaviour of SpecLocks
LockMsgs == 4
\* fetchRegion calls made in a behaviour of SpecLocks
LockFetches == 2
\* raw instructions of the wide TB of SpecWide, sixty bytes each
WideLen == 5
\* messages dispatched in a behaviour of SpecWide
WideMsgs == 3
\* messages dispatched in a behaviour of SpecDrain
DrainMsgs == 3

(***************************************************************************)
(* Program constants                                                       *)
(***************************************************************************)
\* ~uint16_t(0u): the initial EndIdx of tbExec
UINT16_MAX == 65535
\* -max-accepted-connection, the plugin's default
DefaultMaxNumConn == 1

Min2(a, b) == IF a < b THEN a ELSE b
Max2(a, b) == IF a > b THEN a ELSE b
MinOf(S) == CHOOSE x \in S : \A y \in S : x <= y

\* SmallVector slice [from, to] of a sequence, 1-based, empty when from > to
SubSeqOf(s, from, to) == [k \in 1..(IF to >= from THEN to - from + 1 ELSE 0) |-> s[from + k - 1]]

(***************************************************************************)
(* The disassembler.  A raw instruction is its byte length `len` and the   *)
(* sizes `dec` the target's MCDisassembler reports for the instructions it *)
(* decodes from those bytes, in order; when the sizes do not cover `len`   *)
(* bytes the decoder refuses the bytes that follow them.                   *)
(***************************************************************************)
RawOne  == [len |-> 4, dec |-> <<4>>]
RawTwo  == [len |-> 4, dec |-> <<2, 2>>]
RawBad  == [len |-> 4, dec |-> <<>>]
Raw12   == [len |-> 12, dec |-> <<12>>]
Raw60   == [len |-> 60, dec |-> <<15, 15, 15, 15>>]

\* if (!DisAsmSize) DisAsmSize = 1;
EffSize(sz) == IF sz = 0 THEN 1 ELSE sz

RECURSIVE DecOffset(_, _)
\* byte offset inside the raw instruction at which its j-th (0-based) instruction starts
DecOffset(dec, j) == IF j = 0 THEN 0 ELSE DecOffset(dec, j - 1) + EffSize(dec[j])

\* CurDisAsm->getInstruction(*MCI, DisAsmSize, InstBytes.slice(Index), ...)
getInstruction(RawInst, Index) ==
  LET at == {j \in 0..(Len(RawInst.dec) - 1) : DecOffset(RawInst.dec, j) = Index}
  IN IF at = {} THEN [Disassembled |-> FALSE, DisAsmSize |-> 0]
     ELSE [Disassembled |-> TRUE, DisAsmSize |-> RawInst.dec[MinOf(at) + 1]]

\* An MCInst owned by a TranslationBlock: the TB index, the registration of
\* that index it belongs to, and its position in MCInsts.
MCInstPtr(tb, gen, k) == <<tb, gen, k>>
\* What a read past the end of MCInsts yields when it does not fault.
WildPtr == <<-1, -1, -1>>

\* explicit TranslationBlock(size_t Size)
NewTranslationBlock(RawInsts, gen) ==
  [has |-> TRUE, RawInsts |-> RawInsts, MCInsts |-> <<>>, SkewIndicies |-> <<>>,
   VAddr |-> 0, VAddrOffsets |-> <<>>, gen |-> gen]
\* an empty Optional<TranslationBlock>
NoneTB ==
  [has |-> FALSE, RawInsts |-> <<>>, MCInsts |-> <<>>, SkewIndicies |-> <<>>,
   VAddr |-> 0, VAddrOffsets |-> <<>>, gen |-> 0]

\* TranslationBlock::operator bool
IsTranslated(TB) == TB.MCInsts # <<>>

\* SkewIndicies is a DenseMap<unsigned, unsigned>, kept as a sequence of <<key, value>>
SkewCount(TB, k) == \E e \in 1..Len(TB.SkewIndicies) : TB.SkewIndicies[e][1] = k
SkewLookup(TB, k) == TB.SkewIndicies[CHOOSE e \in 1..Len(TB.SkewIndicies) : TB.SkewIndicies[e][1] = k][2]
SkewStore(m, k, v) ==
  IF \E e \in 1..Len(m) : m[e][1] = k
  THEN [e \in 1..Len(m) |-> IF m[e][1] = k THEN <<k, v>> ELSE m[e]]
  ELSE Append(m, <<k, v>>)

RECURSIVE DecodeRaw(_, _, _, _, _, _)
\* the inner loop of disassemble: while (Index < Len)
DecodeRaw(TB, RawInst, Index, NumMCInsts, VAddr, st) ==
  IF Index >= RawInst.len THEN st
  ELSE LET r == getInstruction(RawInst, Index)
       IN IF ~r.Disassembled THEN st
          ELSE LET n == NumMCInsts + 1
                   st2 == [MCInsts |-> Append(st.MCInsts,
                                         MCInstPtr(st.tbidx, TB.gen, Len(st.MCInsts))),
                           \* VAddrOffsets holds uint8_t
                           VAddrOffsets |-> Append(st.VAddrOffsets,
                                         (VAddr + Index - st.StartVAddr) % 256),
                           SkewIndicies |-> st.SkewIndicies,
                           SkewIdxOffset |-> IF n > 1 THEN st.SkewIdxOffset + 1
                                                      ELSE st.SkewIdxOffset,
                           StartVAddr |-> st.StartVAddr,
                           tbidx |-> st.tbidx]
               IN DecodeRaw(TB, RawInst, Index + EffSize(r.DisAsmSize), n, VAddr, st2)

\* a skew entry that maps a raw index to itself
SkewTargetSame(RawInstIdx, SkewIdxOffset) == RawInstIdx

\* TB.SkewIndicies[RawInstIdx] = RawInstIdx + SkewIdxOffset
SkewTarget(RawInstIdx, SkewIdxOffset) == RawInstIdx + SkewIdxOffset

RECURSIVE DisasmLoop(_, _, _, _)
\* the outer loop of disassemble: for (const auto &RawInst : TB.RawInsts)
DisasmLoop(TB, RawInstIdx, VAddr, st) ==
  IF RawInstIdx >= Len(TB.RawInsts) THEN st
  ELSE LET RawInst == TB.RawInsts[RawInstIdx + 1]
           st1 == IF st.SkewIdxOffset > 0
                  THEN [st EXCEPT !.SkewIndicies =
                          SkewStore(@, RawInstIdx, SkewTarget(RawInstIdx, st.SkewIdxOffset))]
                  ELSE st
           st2 == DecodeRaw(TB, RawInst, 0, 0, VAddr, st1)
       IN DisasmLoop(TB, RawInstIdx + 1, VAddr + RawInst.len, st2)

\* (~0b1) applied to an address
MaskLSB(a) == a - (a % 2)

\* QemuBroker::disassemble, for a TB whose VAddr has been set to the PC
disassemble(TB, tbidx, arm) ==
  IF IsTranslated(TB) THEN TB
  ELSE LET StartVAddr == IF arm THEN MaskLSB(TB.VAddr) ELSE TB.VAddr
           st == DisasmLoop(TB, 0, StartVAddr,
                   [MCInsts |-> <<>>, VAddrOffsets |-> <<>>, SkewIndicies |-> <<>>,
                    SkewIdxOffset |-> 0, StartVAddr |-> StartVAddr, tbidx |-> tbidx])
       IN [TB EXCEPT !.MCInsts = st.MCInsts, !.VAddrOffsets = st.VAddrOffsets,
                     !.SkewIndicies = st.SkewIndicies]

(***************************************************************************)
(* Binary regions.  BinRegions is the manifest in file order; a region is  *)
(* referred to by its position in it, 0 standing for the null pointer.     *)
(***************************************************************************)
\* BinaryRegions::lookup: the region that starts at Addr, the first on a tie
lookup(Regs, Addr) ==
  LET hits == {r \in 1..Len(Regs) : Regs[r].StartAddr = Addr}
  IN IF hits = {} THEN 0 ELSE MinOf(hits)

\* a slice that stops short of the closing instruction
EndIdxBefore(i) == i % (UINT16_MAX + 1)

\* EndIdx = i + 1, in a uint16_t
EndIdxAt(i) == (i + 1) % (UINT16_MAX + 1)

\* a slice that begins at the TB's first instruction whatever the tracker says
BeginAtZero(EndIdx) == 0

\* if (!CurBinRegion) BeginIdx = EndIdx;
BeginOutside(EndIdx) == EndIdx

\* tbExec, "Handle regions": the slice bounds, the region the slice ends and
\* the new CurBinRegion for a translated TB
HandleRegions(TB, Regs, Cur, CSA) ==
  IF Len(Regs) = 0
  THEN [BeginIdx |-> 0, EndIdx |-> UINT16_MAX, Region |-> 0, Cur |-> Cur]
  ELSE
    LET S == Len(TB.VAddrOffsets)
        VA == TB.VAddr - CSA
        starts == {i \in 0..(S - 1) : lookup(Regs, VA + TB.VAddrOffsets[i + 1]) # 0}
        \* if (!CurBinRegion): look for a starting address
        p1 == IF Cur # 0 THEN [i |-> 0, BeginIdx |-> 0, Cur |-> Cur]
              ELSE IF TB.VAddr >= CSA
                   THEN IF starts = {}
                        THEN [i |-> S, BeginIdx |-> BeginOutside(UINT16_MAX), Cur |-> 0]
                        ELSE [i |-> MinOf(starts),
                              BeginIdx |-> MinOf(starts) % (UINT16_MAX + 1),
                              Cur |-> lookup(Regs, VA + TB.VAddrOffsets[MinOf(starts) + 1])]
                   ELSE [i |-> 0, BeginIdx |-> BeginOutside(UINT16_MAX), Cur |-> 0]
        ends == IF p1.Cur # 0 /\ TB.VAddr >= CSA
                THEN {i \in p1.i..(S - 1) :
                        Regs[p1.Cur].EndAddr = VA + TB.VAddrOffsets[i + 1]}
                ELSE {}
    IN IF ends = {}
       THEN [BeginIdx |-> p1.BeginIdx, EndIdx |-> UINT16_MAX, Region |-> 0, Cur |-> p1.Cur]
       ELSE [BeginIdx |-> p1.BeginIdx, EndIdx |-> EndIdxAt(MinOf(ends)),
             Region |-> p1.Cur, Cur |-> 0]

(***************************************************************************)
(* Memory accesses.  A wire record is [Index, IsStore, VAddr, Size]; a     *)
(* chain entry is [first, IsStore, Addr, Size] (MemoryAccessEntry).        *)
(***************************************************************************)
\* every record becomes an entry of its own
AddMemAccessApart(TB, chain, FbMA) ==
  Append(chain, [first |-> IF SkewCount(TB, FbMA.Index) THEN SkewLookup(TB, FbMA.Index)
                                                        ELSE FbMA.Index,
                 IsStore |-> FbMA.IsStore, Addr |-> FbMA.VAddr, Size |-> FbMA.Size])

\* one iteration of tbExec's loop over the records of an ExecTB
AddMemAccess(TB, chain, FbMA) ==
  LET InstIdx == IF SkewCount(TB, FbMA.Index) THEN SkewLookup(TB, FbMA.Index)
                                              ELSE FbMA.Index
      n == Len(chain)
  IN IF n > 0 /\ chain[n].first = InstIdx
     THEN LET MA == chain[n]
              NewAddr == Min2(MA.Addr, FbMA.VAddr)
              NewEndAddr == Max2(MA.Addr + MA.Size, FbMA.VAddr + FbMA.Size)
          IN [chain EXCEPT ![n] = [first |-> InstIdx,
                                   IsStore |-> MA.IsStore \/ FbMA.IsStore,
                                   Addr |-> NewAddr,
                                   Size |-> NewEndAddr - NewAddr]]
     ELSE Append(chain, [first |-> InstIdx, IsStore |-> FbMA.IsStore,
                         Addr |-> FbMA.VAddr, Size |-> FbMA.Size])

RECURSIVE BuildChain(_, _, _)
\* tbExec, "Handle memory accesses": the chain of the records FbMAs[k..]
BuildChain(TB, FbMAs, chain) ==
  IF FbMAs = <<>> THEN chain
  ELSE BuildChain(TB, Tail(FbMAs), AddMemAccess(TB, chain, Head(FbMAs)))

(***************************************************************************)
(* TBSlice.  MemoryAccesses is a pointer: HasMA tells whether it is        *)
(* non-null, MemoryAccesses is the chain it points to.                     *)
(***************************************************************************)
TBSlice(Index, BeginIdx, EndIdx, Region, HasMA, MemAccesses) ==
  [Index |-> Index, BeginIdx |-> BeginIdx, EndIdx |-> EndIdx, Region |-> Region,
   HasMA |-> HasMA, MemoryAccesses |-> MemAccesses]

\* TBSlice::size
SliceSize(s) == s.EndIdx - s.BeginIdx

\* llvm::lower_bound(*MemoryAccesses, SplitPoint, Compare): the number of
\* leading entries whose index is below SplitPoint
LowerBound(chain, SplitPoint) ==
  Cardinality({k \in 1..Len(chain) : \A j \in 1..k : chain[j].first < SplitPoint})

\* TBSlice::split: the new slice that ends at SplitPoint and what is left of this one
split(s, SplitPoint) ==
  LET lb == LowerBound(s.MemoryAccesses, SplitPoint)
      moves == s.HasMA /\ lb # Len(s.MemoryAccesses)
  IN [New  |-> TBSlice(s.Index, s.BeginIdx, SplitPoint, s.Region,
                       moves,
                       IF moves THEN SubSeqOf(s.MemoryAccesses, 1, lb) ELSE <<>>),
      Rest |-> TBSlice(s.Index, SplitPoint, s.EndIdx, s.Region,
                       s.HasMA,
                       IF moves THEN SubSeqOf(s.MemoryAccesses, lb + 1, Len(s.MemoryAccesses))
                                ELSE s.MemoryAccesses)]

(***************************************************************************)
(* fetchRegion: the selection loop and the delivery loop                   *)
(***************************************************************************)
\* a selection that no region-end marker stops
EndOfRegionNever(Sel) == FALSE

\* EndOfRegion = SelectedSlices.empty()? false : bool(SelectedSlices.back().Region)
EndOfRegion(Sel) == IF Sel = <<>> THEN FALSE ELSE Sel[Len(Sel)].Region # 0

RECURSIVE SelectLoop(_, _, _, _)
\* while (S > 0 && !TBQueue.empty() && !EndOfRegion): what is left of the
\* queue and the slices selected.  spin tells that the loop cannot end: the
\* head names no TB, and nothing in the body changes.
SelectLoop(tbs, Q, S, Sel) ==
  IF ~(S > 0 /\ Q # <<>> /\ ~EndOfRegion(Sel))
     THEN [Queue |-> Q, Selected |-> Sel, spin |-> FALSE]
     ELSE LET CurSlice == Q[1]
              TBIdx == CurSlice.Index
          IN IF TBIdx < Len(tbs) /\ tbs[TBIdx + 1].has
             THEN LET SliceLen == Min2(Len(tbs[TBIdx + 1].MCInsts), SliceSize(CurSlice))
                  IN IF SliceLen > S
                     THEN LET sp == split(CurSlice, (CurSlice.BeginIdx + S) % (UINT16_MAX + 1))
                              TakenSlice == [sp.New EXCEPT !.Region = 0]
                          IN SelectLoop(tbs, <<sp.Rest>> \o Tail(Q), 0,
                                        Append(Sel, TakenSlice))
                     ELSE SelectLoop(tbs, Tail(Q), S - SliceLen, Append(Sel, CurSlice))
             ELSE [Queue |-> Q, Selected |-> Sel, spin |-> TRUE]

\* the descriptor of a memory access as the metadata registry holds it
MDMemoryAccess(e) == [IsStore |-> e.IsStore, Addr |-> e.Addr, Size |-> e.Size]

\* a counter that stands still
SameSeq(t) == t

\* ++TotalNumTraces
NextSeq(t) == t + 1

RECURSIVE DeliverSlice(_, _, _, _, _, _)
\* for (i = Slice.BeginIdx; i != End && Size > 0; ++i, --Size) over one slice.
\* d is [Size, TotalNumTraces, delivered, oob]; delivered lists, per MCIS
\* entry written, the MCInst, its sequence number and what was published
\* for it; oob counts the reads of MCInsts at or past its size.
DeliverSlice(MCInsts, End, i, MAs, MDE, d) ==
  IF i = End \/ ~(d.Size > 0) THEN d
  ELSE LET inb == i < Len(MCInsts)
           MCI == IF inb THEN MCInsts[i + 1] ELSE WildPtr
           hit == MAs # <<>> /\ MAs[1].first = i
           seq == NextSeq(d.TotalNumTraces)
       IN DeliverSlice(MCInsts, End, i + 1, IF hit THEN Tail(MAs) ELSE MAs, MDE,
            [Size |-> d.Size - 1,
             TotalNumTraces |-> seq,
             delivered |-> Append(d.delivered,
                             [inst |-> MCI, seq |-> seq,
                              ma |-> IF hit /\ MDE THEN <<MDMemoryAccess(MAs[1])>> ELSE <<>>]),
             oob |-> d.oob + (IF inb THEN 0 ELSE 1)])

RECURSIVE DeliverLoop(_, _, _, _)
\* for (auto &Slice : SelectedSlices)
DeliverLoop(tbs, Sel, MDE, d) ==
  IF Sel = <<>> THEN d
  ELSE LET Slice == Sel[1]
           MCInsts == tbs[Slice.Index + 1].MCInsts
           End == Min2(Len(MCInsts), Slice.EndIdx)
       IN DeliverLoop(tbs, Tail(Sel), MDE,
            DeliverSlice(MCInsts, End, Slice.BeginIdx,
                         IF Slice.HasMA THEN Slice.MemoryAccesses ELSE <<>>, MDE, d))

\* the pair fetchRegion returns after the delivery
FetchResult(Regs, Sel, TotalSize, Size) ==
  IF Sel # <<>> /\ Sel[Len(Sel)].Region # 0
  THEN [count |-> TotalSize - Size, IsEnd |-> TRUE,
        Description |-> Regs[Sel[Len(Sel)].Region].Description]
  ELSE [count |-> TotalSize - Size, IsEnd |-> FALSE, Description |-> ""]

(***************************************************************************)
(* State                                                                   *)
(***************************************************************************)
VARIABLES
  TBs,                      \* SmallVector<Optional<TranslationBlock>, 8>
  TBQueue,                  \* SmallVector<TBSlice, 16>
  IsEndOfStream,
  QueueMutex,               \* "free", or the thread that holds it
  TBsMutex,                 \* "free", or the thread that holds it
  CurBinRegion,             \* position in BinRegions, 0 for nullptr
  CodeStartAddress,
  TotalNumTraces,
  MaxNumAcceptedConnection,
  BinRegions,               \* the manifest loaded by the constructor
  IsARM,                    \* TheTriple.isARM() || TheTriple.isThumb()
  rpc,                      \* where the receiver thread is
  rloc,                     \* the receiver's locals: the message being handled
  cpc,                      \* where the consumer thread is
  cloc,                     \* the consumer's locals: Size, TotalSize, MDE, SelectedSlices
  ret,                      \* what the last fetchRegion call returned
  out,                      \* every MCIS entry written so far, in order
  pushed,                   \* the instructions of every slice queued so far, in order
  hist,                     \* counters of what has happened so far
  limits                    \* how much one behaviour holds

vars == <<TBs, TBQueue, IsEndOfStream, QueueMutex, TBsMutex, CurBinRegion, CodeStartAddress,
          TotalNumTraces, MaxNumAcceptedConnection, BinRegions, IsARM,
          rpc, rloc, cpc, cloc, ret, out, pushed, hist, limits>>

sharedVars == <<TBs, TBQueue, IsEndOfStream, CurBinRegion, CodeStartAddress,
                TotalNumTraces, MaxNumAcceptedConnection>>
configVars == <<BinRegions, IsARM, limits>>
recvVars == <<rpc, rloc>>
consVars == <<cpc, cloc, ret, out>>

NoLoc == [Size |-> 0, TotalSize |-> 0, MDE |-> FALSE, SelectedSlices |-> <<>>]
\* the result that tells the end of the stream, in place of the empty one
MinusOneRet == [count |-> -1, IsEnd |-> TRUE, Description |-> ""]
NoRet == [count |-> 0, IsEnd |-> FALSE, Description |-> ""]
NoMsg == [kind |-> "none"]

\* the state the constructor leaves, the receiver thread about to listen
InitWith(regs, arm, maxconn, lim) ==
  /\ TBs = <<>>
  /\ TBQueue = <<>>
  /\ IsEndOfStream = FALSE
  /\ QueueMutex = "free"
  /\ TBsMutex = "free"
  /\ CurBinRegion = 0
  /\ CodeStartAddress = 0
  /\ TotalNumTraces = 0
  /\ MaxNumAcceptedConnection = maxconn
  /\ BinRegions = regs
  /\ IsARM = arm
  /\ rpc = "accept"
  /\ rloc = NoMsg
  /\ cpc = "idle"
  /\ cloc = NoLoc
  /\ ret = NoRet
  /\ out = <<>>
  /\ pushed = <<>>
  /\ hist = [msgs |-> 0, fetches |-> 0, returns |-> 0, oob |-> 0, conns |-> 0, waits |-> 0,
             closed |-> 0, configured |-> maxconn, size |-> -1, atend |-> FALSE, last |-> <<"none", 0>>]
  /\ limits = lim

(***************************************************************************)
(* The receiver thread                                                     *)
(***************************************************************************)
\* a fault in the consumer thread ends the process, the receiver thread with it
Alive == cpc # "crashed"

\* a message may be dispatched: the connection is open and the behaviour has room
CanDispatch == Alive /\ rpc = "read" /\ hist.msgs < limits.msgs
Dispatched(kind, Idx) ==
  hist' = [hist EXCEPT !.msgs = @ + 1,
                       !.last = IF limits.track THEN <<kind, Idx>> ELSE @]

\* std::lock_guard<std::mutex> Lock(QueueMutex) in the receiver
RecvLockQueue == QueueMutex = "free"

\* a notification that wakes nobody
NotifyLost == cpc' = cpc

\* QueueCV.notify_one()
NotifyOne == cpc' = IF cpc = "wait" THEN "woken" ELSE cpc

\* recvWorker: accept returns a client
RecvAccept ==
  /\ Alive
  /\ rpc = "accept"
  /\ hist.conns < limits.conns
  /\ rpc' = "read"
  /\ hist' = [hist EXCEPT !.conns = @ + 1]
  /\ UNCHANGED <<sharedVars, configVars, TBsMutex, QueueMutex, rloc, consVars, pushed>>

\* a close that is never counted
RecvCloseUncounted ==
  /\ Alive
  /\ rpc = "read"
  /\ rpc' = "accept"
  /\ hist' = [hist EXCEPT !.closed = @ + 1]
  /\ UNCHANGED <<TBs, TBQueue, IsEndOfStream, CurBinRegion, CodeStartAddress,
                 TotalNumTraces, MaxNumAcceptedConnection, configVars, TBsMutex, QueueMutex,
                 rloc, consVars, pushed>>

\* recvWorker: EOF or a read error ends the inner loop, whether MsgBuffer is
\* empty or holds a frame the verifier rejected; the client is closed and the
\* connection counted
RecvClose ==
  /\ Alive
  /\ rpc \in {"read", "poisoned"}
  /\ IF MaxNumAcceptedConnection > 0
     THEN /\ MaxNumAcceptedConnection' = MaxNumAcceptedConnection - 1
          /\ rpc' = IF MaxNumAcceptedConnection - 1 = 0 THEN "done" ELSE "accept"
     ELSE /\ rpc' = "accept"
          /\ UNCHANGED MaxNumAcceptedConnection
  /\ hist' = [hist EXCEPT !.closed = @ + 1]
  /\ UNCHANGED <<TBs, TBQueue, IsEndOfStream, CurBinRegion, CodeStartAddress,
                 TotalNumTraces, configVars, TBsMutex, QueueMutex, rloc, consVars, pushed>>

\* recvWorker: a frame has been read in full (TotalMsgSize is 0) and
\* VerifySizePrefixedMessageBuffer returns false: the do-while loop goes
\* round again and reads the next four bytes as a size prefix, MsgBuffer
\* still holding the rejected frame
RecvReject ==
  /\ CanDispatch
  /\ rpc' = "poisoned"
  /\ Dispatched("Rejected", 0)
  /\ UNCHANGED <<sharedVars, configVars, TBsMutex, QueueMutex, rloc, consVars, pushed>>

\* recvWorker: more bytes arrive after a rejected frame; they are appended to
\* MsgBuffer, whose size no longer matches its prefix, and the loop goes on
RecvSwallow ==
  /\ Alive
  /\ rpc = "poisoned"
  /\ hist.msgs < limits.msgs
  /\ Dispatched("Swallowed", 0)
  /\ UNCHANGED <<sharedVars, configVars, TBsMutex, QueueMutex, recvVars, consVars, pushed>>

\* handleMetadata
RecvMetadata(LoadAddr) ==
  /\ CanDispatch
  /\ CodeStartAddress' = LoadAddr
  /\ Dispatched("Metadata", 0)
  /\ UNCHANGED <<TBs, TBQueue, IsEndOfStream, CurBinRegion, TotalNumTraces,
                 MaxNumAcceptedConnection, configVars, TBsMutex, QueueMutex, recvVars,
                 consVars, pushed>>

\* !(Idx >= TBs.size() || !TBs[Idx])
ValidIndex(Idx) == Idx < Len(TBs) /\ TBs[Idx + 1].has

\* addTB up to the second lock: the cache is grown under TBsMutex
AddTBResize(Index, RawInsts) ==
  /\ CanDispatch
  /\ IF limits.rereg THEN TRUE ELSE ~ValidIndex(Index)
  /\ TBs' = IF Index >= Len(TBs)
            THEN TBs \o [k \in 1..(Index + 1 - Len(TBs)) |-> NoneTB]
            ELSE TBs
  /\ rpc' = "addTB"
  /\ rloc' = [kind |-> "TranslatedBlock", Index |-> Index, RawInsts |-> RawInsts]
  /\ Dispatched("TranslatedBlock", Index)
  /\ UNCHANGED <<TBQueue, IsEndOfStream, CurBinRegion, CodeStartAddress, TotalNumTraces,
                 MaxNumAcceptedConnection, configVars, TBsMutex, QueueMutex, consVars, pushed>>

\* addTB: TBs[TB.Index()] = std::move(NewTB), under TBsMutex
AddTBAssign ==
  /\ Alive
  /\ rpc = "addTB"
  /\ TBs' = [TBs EXCEPT ![rloc.Index + 1] =
               NewTranslationBlock(rloc.RawInsts, @.gen + 1)]
  /\ rpc' = "read"
  /\ rloc' = NoMsg
  /\ UNCHANGED <<TBQueue, IsEndOfStream, CurBinRegion, CodeStartAddress, TotalNumTraces,
                 MaxNumAcceptedConnection, configVars, TBsMutex, QueueMutex, consVars, pushed, hist>>

\* tbExec on the end signal: the flag is set under QueueMutex
TbExecEnd ==
  /\ CanDispatch
  /\ RecvLockQueue
  /\ IsEndOfStream' = TRUE
  /\ rpc' = "notify"
  /\ Dispatched("End", 0)
  /\ UNCHANGED <<TBs, TBQueue, CurBinRegion, CodeStartAddress, TotalNumTraces,
                 MaxNumAcceptedConnection, configVars, TBsMutex, QueueMutex, rloc, consVars, pushed>>

\* an ExecTB for an index the cache does not hold, taken for the end signal
TbExecInvalidAsEnd(Idx) ==
  /\ CanDispatch
  /\ ~ValidIndex(Idx)
  /\ IsEndOfStream' = TRUE
  /\ Dispatched("ExecTB", Idx)
  /\ UNCHANGED <<TBs, TBQueue, CurBinRegion, CodeStartAddress, TotalNumTraces,
                 MaxNumAcceptedConnection, configVars, TBsMutex, QueueMutex, recvVars, consVars, pushed>>

\* tbExec on an index the cache does not hold: logged and dropped
TbExecInvalid(Idx) ==
  /\ CanDispatch
  /\ ~ValidIndex(Idx)
  /\ Dispatched("ExecTB", Idx)
  /\ UNCHANGED <<sharedVars, configVars, TBsMutex, QueueMutex, recvVars, consVars, pushed>>

\* the TB an ExecTB runs: disassembled at PC unless already translated
ExecutedTB(Idx, PC) ==
  LET TB == TBs[Idx + 1]
  IN IF IsTranslated(TB) THEN TB
     ELSE LET D == disassemble([TB EXCEPT !.VAddr = PC], Idx, IsARM)
          IN IF IsARM THEN [D EXCEPT !.VAddr = MaskLSB(@)] ELSE D

\* tbExec up to "Put into the queue": disassembly, regions, memory accesses
TbExec(Idx, PC, FbMAs) ==
  /\ CanDispatch
  /\ ValidIndex(Idx)
  /\ LET TB == ExecutedTB(Idx, PC)
         hr == HandleRegions(TB, BinRegions, CurBinRegion, CodeStartAddress)
     IN /\ TBs' = [TBs EXCEPT ![Idx + 1] = TB]
        /\ CurBinRegion' = hr.Cur
        /\ IF hr.BeginIdx = hr.EndIdx
           THEN UNCHANGED recvVars
           ELSE /\ rpc' = "push"
                /\ rloc' = [kind |-> "ExecTB", MemAccesses |-> FbMAs,
                            Slice |-> TBSlice(Idx, hr.BeginIdx, hr.EndIdx, hr.Region,
                                              FbMAs # <<>>, BuildChain(TB, FbMAs, <<>>))]
  /\ Dispatched("ExecTB", Idx)
  /\ UNCHANGED <<TBQueue, IsEndOfStream, CodeStartAddress, TotalNumTraces,
                 MaxNumAcceptedConnection, configVars, TBsMutex, QueueMutex, consVars, pushed>>

\* the instructions a slice stands for when it is queued, with the memory
\* access recorded for each
SliceInsts(tbs, s) ==
  LET MCInsts == tbs[s.Index + 1].MCInsts
      End == Min2(Len(MCInsts), s.EndIdx)
      accs(i) == {k \in 1..Len(s.MemoryAccesses) : s.MemoryAccesses[k].first = i}
  IN [k \in 1..(IF End > s.BeginIdx THEN End - s.BeginIdx ELSE 0) |->
        LET i == s.BeginIdx + k - 1
        IN [inst |-> MCInsts[i + 1],
            ma |-> IF s.HasMA /\ accs(i) # {}
                   THEN <<MDMemoryAccess(s.MemoryAccesses[MinOf(accs(i))])>>
                   ELSE <<>>]]

\* tbExec: TBQueue.emplace_back(...) under QueueMutex
TbExecPush ==
  /\ Alive
  /\ rpc = "push"
  /\ RecvLockQueue
  /\ TBQueue' = Append(TBQueue, rloc.Slice)
  /\ pushed' = IF limits.track THEN pushed \o SliceInsts(TBs, rloc.Slice) ELSE pushed
  /\ rpc' = "notify"
  /\ rloc' = NoMsg
  /\ UNCHANGED <<TBs, IsEndOfStream, CurBinRegion, CodeStartAddress, TotalNumTraces,
                 MaxNumAcceptedConnection, configVars, TBsMutex, QueueMutex, consVars, hist>>

\* tbExec: QueueCV.notify_one() after the lock is released
RecvNotify ==
  /\ Alive
  /\ rpc = "notify"
  /\ NotifyOne
  /\ rpc' = "read"
  /\ UNCHANGED <<sharedVars, configVars, TBsMutex, QueueMutex, rloc, cloc, ret, out, pushed, hist>>

(***************************************************************************)
(* The consumer thread: fetchRegion                                        *)
(***************************************************************************)
\* a return of fetchRegion
Return(r) ==
  /\ ret' = r
  /\ cpc' = "idle"
  /\ cloc' = NoLoc
  /\ hist' = [hist EXCEPT !.returns = IF limits.track THEN @ + 1 ELSE @]

EndOfStreamResult == [count |-> -1, IsEnd |-> TRUE, Description |-> ""]

\* the end of the stream declared as soon as the flag is set, whatever is queued
AtEndEager == IsEndOfStream

\* if (TBQueue.empty() && IsEndOfStream) return std::make_pair(-1, ...)
AtEnd == TBQueue = <<>> /\ IsEndOfStream

\* fetchRegion is called with Size, an MCIS of BufLen entries and, when MDE, a
\* metadata exchanger
FetchCall(Size, BufLen, MDE) ==
  /\ cpc = "idle"
  /\ IF limits.fetches < 0 THEN TRUE ELSE hist.fetches < limits.fetches
  /\ IF limits.n = 0 THEN TRUE ELSE Size = limits.n
  /\ IF limits.late THEN rpc = "done" ELSE TRUE
  /\ IF Size = 0
     THEN /\ ret' = NoRet
          /\ hist' = [hist EXCEPT !.fetches = IF limits.track THEN @ + 1 ELSE @,
                                  !.returns = IF limits.track THEN @ + 1 ELSE @,
                                  !.size = IF limits.track THEN 0 ELSE @,
                                  !.atend = IF limits.track THEN AtEnd ELSE @]
          /\ UNCHANGED <<cpc, cloc>>
     ELSE LET Sz == IF Size < 0 \/ Size > BufLen THEN BufLen ELSE Size
          IN /\ cloc' = [Size |-> Sz, TotalSize |-> Sz, MDE |-> MDE,
                         SelectedSlices |-> <<>>]
             /\ cpc' = "lock"
             /\ hist' = [hist EXCEPT !.fetches = IF limits.track THEN @ + 1 ELSE @,
                                     !.waits = 0,
                                     !.size = IF limits.track THEN Sz ELSE @,
                                     !.atend = IF limits.track THEN AtEnd ELSE @]
             /\ UNCHANGED ret
  /\ UNCHANGED <<sharedVars, configVars, TBsMutex, QueueMutex, recvVars, out, pushed>>

\* lines 680-707 with QueueMutex held: the end-of-stream return, or the
\* selection under TBsMutex; both locks are released on the way out
SelectOrEnd ==
  IF AtEnd
  THEN /\ Return(EndOfStreamResult)
       /\ QueueMutex' = "free"
       /\ UNCHANGED TBQueue
  ELSE LET sl == SelectLoop(TBs, TBQueue, cloc.Size, <<>>)
       IN /\ TBQueue' = sl.Queue
          /\ cloc' = [cloc EXCEPT !.SelectedSlices = sl.Selected]
          /\ cpc' = IF sl.spin THEN "spin" ELSE "deliver"
          /\ QueueMutex' = IF sl.spin THEN "consumer" ELSE "free"
          /\ UNCHANGED <<ret, hist>>

\* std::unique_lock<std::mutex> Lock(QueueMutex) and the first look at the queue
FetchLock ==
  /\ cpc = "lock"
  /\ QueueMutex = "free"
  /\ IF TBQueue = <<>> /\ ~IsEndOfStream
     THEN \* QueueCV.wait(Lock, pred) finds pred false
          /\ QueueMutex' = "consumer"
          /\ cpc' = "prewait"
          /\ UNCHANGED <<TBQueue, cloc, ret, hist>>
     ELSE SelectOrEnd
  /\ UNCHANGED <<TBs, IsEndOfStream, CurBinRegion, CodeStartAddress, TotalNumTraces,
                 MaxNumAcceptedConnection, configVars, TBsMutex, recvVars, out, pushed>>

\* QueueCV.wait: the lock is released and the thread blocks, atomically
FetchWait ==
  /\ cpc = "prewait"
  /\ QueueMutex' = "free"
  /\ cpc' = "wait"
  /\ hist' = [hist EXCEPT !.waits = IF limits.track THEN 1 ELSE @]
  /\ UNCHANGED <<sharedVars, configVars, TBsMutex, recvVars, cloc, ret, out, pushed>>

\* a condition variable may wake its waiter with no notification
SpuriousWake ==
  /\ cpc = "wait"
  /\ cpc' = "woken"
  /\ UNCHANGED <<sharedVars, configVars, TBsMutex, QueueMutex, recvVars, cloc, ret, out, pushed, hist>>

\* QueueCV.wait: the woken thread takes the lock again and evaluates pred
FetchRelock ==
  /\ cpc = "woken"
  /\ QueueMutex = "free"
  /\ IF IsEndOfStream \/ TBQueue # <<>>
     THEN SelectOrEnd
     ELSE /\ QueueMutex' = "consumer"
          /\ cpc' = "prewait"
          /\ UNCHANGED <<TBQueue, cloc, ret, hist>>
  /\ UNCHANGED <<TBs, IsEndOfStream, CurBinRegion, CodeStartAddress, TotalNumTraces,
                 MaxNumAcceptedConnection, configVars, TBsMutex, recvVars, out, pushed>>

\* what a read past the end of MCInsts does: it faults, or yields WildPtr
OOBOutcomes == {"fault", "wild"}

\* lines 709-751: the delivery loop under TBsMutex, and the return
FetchDeliver(outcome) ==
  /\ cpc = "deliver"
  /\ LET d == DeliverLoop(TBs, cloc.SelectedSlices, cloc.MDE,
                [Size |-> cloc.Size, TotalNumTraces |-> TotalNumTraces,
                 delivered |-> <<>>, oob |-> 0])
     IN IF d.oob > 0 /\ outcome = "fault"
        THEN /\ cpc' = "crashed"
             /\ hist' = [hist EXCEPT !.oob = IF limits.track THEN @ + d.oob ELSE @]
             /\ UNCHANGED <<TotalNumTraces, cloc, ret, out>>
        ELSE /\ TotalNumTraces' = d.TotalNumTraces
             /\ out' = IF limits.track THEN out \o d.delivered ELSE out
             /\ ret' = FetchResult(BinRegions, cloc.SelectedSlices, cloc.TotalSize, d.Size)
             /\ cpc' = "idle"
             /\ cloc' = NoLoc
             /\ hist' = [hist EXCEPT !.returns = IF limits.track THEN @ + 1 ELSE @,
                                     !.oob = IF limits.track THEN @ + d.oob ELSE @]
  /\ UNCHANGED <<TBs, TBQueue, IsEndOfStream, CurBinRegion, CodeStartAddress,
                 MaxNumAcceptedConnection, configVars, TBsMutex, QueueMutex, recvVars, pushed>>

(***************************************************************************)
(* The same two threads, one step for every lock taken, every critical     *)
(* section and the disassembly of a TB: each mutex is held from the step   *)
(* that takes it to the step that ends its scope.                          *)
(***************************************************************************)
recvRest == <<CurBinRegion, CodeStartAddress, TotalNumTraces, MaxNumAcceptedConnection,
              configVars, consVars>>
consRest == <<TBs, IsEndOfStream, CurBinRegion, CodeStartAddress, MaxNumAcceptedConnection,
              configVars, recvVars, pushed>>

\* recvWorker dispatches a TranslatedBlock; addTB tests TB.Index() >= TBs.size()
AddTBBegin(Index, RawInsts) ==
  /\ CanDispatch
  /\ IF limits.rereg THEN TRUE ELSE ~ValidIndex(Index)
  /\ rpc' = IF Index >= Len(TBs) THEN "resizeLock" ELSE "assignLock"
  /\ rloc' = [kind |-> "TranslatedBlock", Index |-> Index, RawInsts |-> RawInsts]
  /\ Dispatched("TranslatedBlock", Index)
  /\ UNCHANGED <<TBs, TBQueue, IsEndOfStream, QueueMutex, TBsMutex, recvRest, pushed>>

\* addTB: std::lock_guard<std::mutex> LK(TBsMutex) ahead of the resize
AddTBLockResize ==
  /\ Alive
  /\ rpc = "resizeLock"
  /\ TBsMutex = "free"
  /\ TBsMutex' = "receiver"
  /\ rpc' = "resize"
  /\ UNCHANGED <<TBs, TBQueue, IsEndOfStream, QueueMutex, recvRest, rloc, pushed, hist>>

\* addTB: TBs.resize(TB.Index() + 1), and the end of the guard's scope
AddTBGrow ==
  /\ Alive
  /\ rpc = "resize"
  /\ TBs' = TBs \o [k \in 1..(rloc.Index + 1 - Len(TBs)) |-> NoneTB]
  /\ TBsMutex' = "free"
  /\ rpc' = "assignLock"
  /\ UNCHANGED <<TBQueue, IsEndOfStream, QueueMutex, recvRest, rloc, pushed, hist>>

\* addTB: std::lock_guard<std::mutex> LK(TBsMutex) ahead of the assignment
AddTBLockAssign ==
  /\ Alive
  /\ rpc = "assignLock"
  /\ TBsMutex = "free"
  /\ TBsMutex' = "receiver"
  /\ rpc' = "assign"
  /\ UNCHANGED <<TBs, TBQueue, IsEndOfStream, QueueMutex, recvRest, rloc, pushed, hist>>

\* an assignment that returns with TBsMutex still held
AddTBStoreKeepLock ==
  /\ Alive
  /\ rpc = "assign"
  /\ TBs' = [TBs EXCEPT ![rloc.Index + 1] = NewTranslationBlock(rloc.RawInsts, @.gen + 1)]
  /\ rpc' = "read"
  /\ rloc' = NoMsg
  /\ UNCHANGED <<TBQueue, IsEndOfStream, QueueMutex, TBsMutex, recvRest, pushed, hist>>

\* addTB: TBs[TB.Index()] = std::move(NewTB), and the return
AddTBStore ==
  /\ Alive
  /\ rpc = "assign"
  /\ TBs' = [TBs EXCEPT ![rloc.Index + 1] = NewTranslationBlock(rloc.RawInsts, @.gen + 1)]
  /\ TBsMutex' = "free"
  /\ rpc' = "read"
  /\ rloc' = NoMsg
  /\ UNCHANGED <<TBQueue, IsEndOfStream, QueueMutex, recvRest, pushed, hist>>

\* recvWorker dispatches the end signal
TbExecEndBegin ==
  /\ CanDispatch
  /\ rpc' = "endLock"
  /\ Dispatched("End", 0)
  /\ UNCHANGED <<TBs, TBQueue, IsEndOfStream, QueueMutex, TBsMutex, recvRest, rloc, pushed>>

\* tbExec: std::lock_guard<std::mutex> Lock(QueueMutex) of the end signal
TbExecEndLock ==
  /\ Alive
  /\ rpc = "endLock"
  /\ QueueMutex = "free"
  /\ QueueMutex' = "receiver"
  /\ rpc' = "endSet"
  /\ UNCHANGED <<TBs, TBQueue, IsEndOfStream, TBsMutex, recvRest, rloc, pushed, hist>>

\* tbExec: IsEndOfStream = true, and the end of the guard's scope
TbExecEndSet ==
  /\ Alive
  /\ rpc = "endSet"
  /\ IsEndOfStream' = TRUE
  /\ QueueMutex' = "free"
  /\ rpc' = "notify"
  /\ UNCHANGED <<TBs, TBQueue, TBsMutex, recvRest, rloc, pushed, hist>>

\* recvWorker dispatches an ExecTB for an index the cache holds; tbExec
\* tests if (!TB) and, for a TB not yet translated, starts writing it
TbExecBegin(Idx, PC, FbMAs) ==
  /\ CanDispatch
  /\ ValidIndex(Idx)
  /\ rpc' = IF IsTranslated(TBs[Idx + 1]) THEN "regions" ELSE "decoding"
  /\ rloc' = [kind |-> "ExecTB", Index |-> Idx, PC |-> PC, MemAccesses |-> FbMAs]
  /\ Dispatched("ExecTB", Idx)
  /\ UNCHANGED <<TBs, TBQueue, IsEndOfStream, QueueMutex, TBsMutex, recvRest, pushed>>

\* tbExec: TB.VAddr = PC; disassemble(TB); no mutex is taken
TbExecDecoded ==
  /\ Alive
  /\ rpc = "decoding"
  /\ TBs' = [TBs EXCEPT ![rloc.Index + 1] = ExecutedTB(rloc.Index, rloc.PC)]
  /\ rpc' = "regions"
  /\ UNCHANGED <<TBQueue, IsEndOfStream, QueueMutex, TBsMutex, recvRest, rloc, pushed, hist>>

\* tbExec: "Handle regions", the empty-slice return and "Handle memory accesses"
TbExecRegions ==
  /\ Alive
  /\ rpc = "regions"
  /\ LET TB == TBs[rloc.Index + 1]
         hr == HandleRegions(TB, BinRegions, CurBinRegion, CodeStartAddress)
     IN /\ CurBinRegion' = hr.Cur
        /\ IF hr.BeginIdx = hr.EndIdx
           THEN rpc' = "read" /\ rloc' = NoMsg
           ELSE /\ rpc' = "pushLock"
                /\ rloc' = [kind |-> "ExecTB", MemAccesses |-> rloc.MemAccesses,
                            Slice |-> TBSlice(rloc.Index, hr.BeginIdx, hr.EndIdx, hr.Region,
                                              rloc.MemAccesses # <<>>,
                                              BuildChain(TB, rloc.MemAccesses, <<>>))]
  /\ UNCHANGED <<TBs, TBQueue, IsEndOfStream, QueueMutex, TBsMutex, CodeStartAddress,
                 TotalNumTraces, MaxNumAcceptedConnection, configVars, consVars, pushed, hist>>

\* tbExec: std::lock_guard<std::mutex> Lock(QueueMutex) ahead of the push
TbExecLockQueue ==
  /\ Alive
  /\ rpc = "pushLock"
  /\ QueueMutex = "free"
  /\ QueueMutex' = "receiver"
  /\ rpc' = "pushing"
  /\ UNCHANGED <<TBs, TBQueue, IsEndOfStream, TBsMutex, recvRest, rloc, pushed, hist>>

\* tbExec: TBQueue.emplace_back(...), and the end of the guard's scope
TbExecEmplace ==
  /\ Alive
  /\ rpc = "pushing"
  /\ TBQueue' = Append(TBQueue, rloc.Slice)
  /\ pushed' = IF limits.track THEN pushed \o SliceInsts(TBs, rloc.Slice) ELSE pushed
  /\ QueueMutex' = "free"
  /\ rpc' = "notify"
  /\ rloc' = NoMsg
  /\ UNCHANGED <<TBs, IsEndOfStream, TBsMutex, recvRest, hist>>

\* fetchRegion: std::unique_lock<std::mutex> Lock(QueueMutex)
FetchLockQueue ==
  /\ cpc = "lock"
  /\ QueueMutex = "free"
  /\ QueueMutex' = "consumer"
  /\ cpc' = "check"
  /\ UNCHANGED <<TBQueue, TotalNumTraces, TBsMutex, consRest, cloc, ret, out, hist>>

\* fetchRegion with QueueMutex held: the two end-of-stream returns, the wait
\* on QueueCV (which releases the mutex), or on to the selection
FetchCheck ==
  /\ cpc = "check"
  /\ IF TBQueue = <<>>
     THEN /\ QueueMutex' = "free"
          /\ IF IsEndOfStream
             THEN Return(EndOfStreamResult)
             ELSE /\ cpc' = "wait"
                  /\ hist' = [hist EXCEPT !.waits = IF limits.track THEN 1 ELSE @]
                  /\ UNCHANGED <<cloc, ret>>
     ELSE /\ cpc' = "tbsLock"
          /\ UNCHANGED <<QueueMutex, cloc, ret, hist>>
  /\ UNCHANGED <<TBQueue, TotalNumTraces, TBsMutex, consRest, out>>

\* QueueCV.wait: the woken thread takes QueueMutex again and evaluates pred
FetchWoken ==
  /\ cpc = "woken"
  /\ QueueMutex = "free"
  /\ IF IsEndOfStream \/ TBQueue # <<>>
     THEN QueueMutex' = "consumer" /\ cpc' = "check"
     ELSE QueueMutex' = "free" /\ cpc' = "wait"
  /\ UNCHANGED <<TBQueue, TotalNumTraces, TBsMutex, consRest, cloc, ret, out, hist>>

\* fetchRegion: std::lock_guard<std::mutex> LK(TBsMutex), QueueMutex held
FetchLockTBs ==
  /\ cpc = "tbsLock"
  /\ TBsMutex = "free"
  /\ TBsMutex' = "consumer"
  /\ cpc' = "select"
  /\ UNCHANGED <<TBQueue, TotalNumTraces, QueueMutex, consRest, cloc, ret, out, hist>>

\* the receiver is writing the TB at Index: tbExec is inside disassemble
BeingWritten(Index) == rpc = "decoding" /\ rloc.Index = Index

\* the consumer is in a critical section in which it reads a TB that the
\* receiver is writing
ReadsWhileWritten ==
  \/ cpc = "select" /\ TBQueue # <<>> /\ BeingWritten(TBQueue[1].Index)
  \/ cpc = "delivering"
       /\ \E k \in 1..Len(cloc.SelectedSlices) : BeingWritten(cloc.SelectedSlices[k].Index)

\* fetchRegion: the selection loop, and the end of both guards' scope.  A read
\* of a TB that is being written faults or sees the TB as it was.
FetchSelect(outcome) ==
  /\ cpc = "select"
  /\ IF ReadsWhileWritten /\ outcome = "fault"
     THEN /\ cpc' = "crashed"
          /\ UNCHANGED <<TBQueue, QueueMutex, TBsMutex, cloc>>
     ELSE LET sl == SelectLoop(TBs, TBQueue, cloc.Size, <<>>)
          IN /\ TBQueue' = sl.Queue
             /\ cloc' = [cloc EXCEPT !.SelectedSlices = sl.Selected]
             /\ cpc' = IF sl.spin THEN "spin" ELSE "tbsLock2"
             /\ QueueMutex' = IF sl.spin THEN "consumer" ELSE "free"
             /\ TBsMutex' = IF sl.spin THEN "consumer" ELSE "free"
  /\ UNCHANGED <<TotalNumTraces, consRest, ret, out, hist>>

\* fetchRegion: std::lock_guard<std::mutex> LK(TBsMutex) ahead of the delivery
FetchLockTBsAgain ==
  /\ cpc = "tbsLock2"
  /\ TBsMutex = "free"
  /\ TBsMutex' = "consumer"
  /\ cpc' = "delivering"
  /\ UNCHANGED <<TBQueue, TotalNumTraces, QueueMutex, consRest, cloc, ret, out, hist>>

\* fetchRegion: the delivery loop, the end of the guard's scope and the return
FetchDeliverLocked(outcome) ==
  /\ cpc = "delivering"
  /\ LET d == DeliverLoop(TBs, cloc.SelectedSlices, cloc.MDE,
                [Size |-> cloc.Size, TotalNumTraces |-> TotalNumTraces,
                 delivered |-> <<>>, oob |-> 0])
     IN IF outcome = "fault" /\ (d.oob > 0 \/ ReadsWhileWritten)
        THEN /\ cpc' = "crashed"
             /\ hist' = [hist EXCEPT !.oob = IF limits.track THEN @ + d.oob ELSE @]
             /\ UNCHANGED <<TotalNumTraces, TBsMutex, cloc, ret, out>>
        ELSE /\ TotalNumTraces' = d.TotalNumTraces
             /\ out' = IF limits.track THEN out \o d.delivered ELSE out
             /\ ret' = FetchResult(BinRegions, cloc.SelectedSlices, cloc.TotalSize, d.Size)
             /\ cpc' = "idle"
             /\ cloc' = NoLoc
             /\ TBsMutex' = "free"
             /\ hist' = [hist EXCEPT !.returns = IF limits.track THEN @ + 1 ELSE @,
                                     !.oob = IF limits.track THEN @ + d.oob ELSE @]
  /\ UNCHANGED <<TBQueue, QueueMutex, consRest>>

(***************************************************************************)
(* What the emulator sends and what the consumer asks for                  *)
(***************************************************************************)
\* the raw instructions of a TranslatedBlock message
Programs == {<<RawOne, RawOne>>, <<RawTwo, RawOne>>}
\* the PC of an ExecTB message
PCs == {0}
\* the load address of a Metadata message
LoadAddrs == {0}
MemAccess(i, st, a, sz) == [Index |-> i, IsStore |-> st, VAddr |-> a, Size |-> sz]
\* the memory accesses of an ExecTB message, in the order the block runs
AccessLists == {<<>>, <<MemAccess(0, TRUE, 32, 4)>>,
                <<MemAccess(0, TRUE, 32, 4), MemAccess(0, FALSE, 34, 4),
                  MemAccess(1, FALSE, 64, 4)>>}
TBIndices == 0..(MaxTB - 1)

Receiver ==
  \/ RecvAccept
  \/ RecvClose
  \/ \E a \in LoadAddrs : RecvMetadata(a)
  \/ \E i \in TBIndices, p \in Programs : AddTBResize(i, p)
  \/ AddTBAssign
  \/ TbExecEnd
  \/ \E i \in 0..MaxTB : TbExecInvalid(i)
  \/ \E i \in TBIndices, pc \in PCs, m \in AccessLists : TbExec(i, pc, m)
  \/ TbExecPush
  \/ RecvNotify

Consumer ==
  \/ \E n \in 0..MaxN : FetchCall(n, MaxN, TRUE)
  \/ FetchLock
  \/ FetchWait
  \/ SpuriousWake
  \/ FetchRelock
  \/ \E o \in OOBOutcomes : FetchDeliver(o)

\* what one behaviour holds: msgs messages dispatched, fetches calls of
\* fetchRegion (-1: any number), conns connections accepted; rereg tells
\* whether the emulator registers a TB index it has registered before, n is
\* the Size every call asks for (0: any), track whether out and pushed are
\* kept, late whether the consumer starts only when the receiver has finished
Limits(msgs, fetches, rereg, n, track, late) ==
  [msgs |-> msgs, fetches |-> fetches, conns |-> 1, rereg |-> rereg, n |-> n,
   track |-> track, late |-> late]

Init == InitWith(<<>>, FALSE, DefaultMaxNumConn, Limits(MaxMsgs, MaxFetches, TRUE, 0, TRUE, FALSE))
Next == Receiver \/ Consumer
Spec == Init /\ [][Next]_vars

\* Both threads are scheduled: a thread that can take its next step takes it.
\* Nothing obliges the emulator to send (the dispatching steps), the
\* consumer to call again (FetchCall) or the condition variable to wake
\* spuriously.
Fairness ==
  /\ WF_vars(AddTBAssign)
  /\ WF_vars(TbExecPush)
  /\ WF_vars(RecvNotify)
  /\ WF_vars(FetchLock)
  /\ WF_vars(FetchWait)
  /\ WF_vars(FetchRelock)
  /\ WF_vars(\E o \in OOBOutcomes : FetchDeliver(o))
SpecFair == Spec /\ Fairness

\* A broker started with a region manifest: one region whose first
\* instruction is at 0x10 and whose closing instruction is at 0x14.  The
\* emulator runs a TB with instructions at 0x00, 0x04, 0x10, 0x14 and a TB of
\* two instructions, at 0x00 or at 0x10, each index registered once.
ManifestRegions == <<[Description |-> "r1", StartAddr |-> 16, EndAddr |-> 20]>>
RegionPrograms == {<<RawOne, Raw12, RawOne, RawOne>>, <<RawOne, RawOne>>}
RegionPCs == {0, 16}
RegionTBIndices == TBIndices
ReceiverRegion ==
  \/ RecvAccept
  \/ RecvClose
  \/ \E a \in LoadAddrs : RecvMetadata(a)
  \/ \E i \in RegionTBIndices, p \in RegionPrograms : AddTBResize(i, p)
  \/ AddTBAssign
  \/ TbExecEnd
  \/ \E i \in RegionTBIndices, pc \in RegionPCs, m \in AccessLists : TbExec(i, pc, m)
  \/ TbExecPush
  \/ RecvNotify
InitRegion == InitWith(ManifestRegions, FALSE, DefaultMaxNumConn,
                       Limits(RegionMsgs, MaxFetches, FALSE, 0, TRUE, FALSE))
NextRegion == ReceiverRegion \/ Consumer
SpecRegion == InitRegion /\ [][NextRegion]_vars

\* The receiver alone, fed TBs of one to three raw instructions each of which
\* decodes to one MCInst, decodes to two, or fails to decode, at indices
\* 0..MaxTB, and ExecTBs for these indices and the one past them.
RawKinds == {RawOne, RawTwo, RawBad}
DecodePrograms ==
  {<<a>> : a \in RawKinds} \cup {<<a, b>> : a, b \in RawKinds}
    \cup {<<a, b, c>> : a, b, c \in RawKinds}
DecodeAccessLists ==
  AccessLists \cup
    {<<MemAccess(1, FALSE, 34, 4), MemAccess(1, TRUE, 30, 2), MemAccess(1, FALSE, 40, 8)>>,
     <<MemAccess(0, FALSE, 8, 4), MemAccess(1, FALSE, 8, 4), MemAccess(1, FALSE, 8, 4),
       MemAccess(2, TRUE, 16, 1)>>}
DecodeTBIndices == 0..MaxTB
ReceiverDecode ==
  \/ RecvAccept
  \/ \E i \in DecodeTBIndices, p \in DecodePrograms : AddTBResize(i, p)
  \/ AddTBAssign
  \/ \E i \in 0..(MaxTB + 1) : TbExecInvalid(i)
  \/ \E i \in DecodeTBIndices, pc \in PCs, m \in DecodeAccessLists : TbExec(i, pc, m)
  \/ TbExecPush
  \/ RecvNotify
InitDecode == InitWith(<<>>, FALSE, DefaultMaxNumConn,
                       Limits(DecodeMsgs, 0, FALSE, 0, TRUE, FALSE))
NextDecode == ReceiverDecode
SpecDecode == InitDecode /\ [][NextDecode]_vars

\* The receiver alone, started with 0..MaxConn as its connection limit, each
\* connection carrying at most a few messages.
ReceiverConn ==
  \/ RecvAccept
  \/ RecvClose
  \/ \E a \in LoadAddrs : RecvMetadata(a)
  \/ TbExecEnd
  \/ \E i \in 0..MaxTB : TbExecInvalid(i)
  \/ RecvNotify
InitConn ==
  \E N \in 0..MaxConn :
    InitWith(<<>>, FALSE, N,
             [Limits(ConnMsgs, 0, FALSE, 0, TRUE, FALSE) EXCEPT !.conns = MaxConn + 1])
NextConn == ReceiverConn
SpecConn == InitConn /\ [][NextConn]_vars

\* The broker with the region manifest, fed by an emulator that translates a
\* TB index again after it has run it.
InitRegionAgain == InitWith(ManifestRegions, FALSE, DefaultMaxNumConn,
                            Limits(RegionMsgs, MaxFetches, TRUE, 0, TRUE, FALSE))
SpecRegionAgain == InitRegionAgain /\ [][NextRegion]_vars

\* The broker stepped lock by lock, fed by an emulator that may translate a
\* TB index again.
ReceiverLocks ==
  \/ RecvAccept
  \/ RecvClose
  \/ \E i \in TBIndices, p \in Programs : AddTBBegin(i, p)
  \/ AddTBLockResize
  \/ AddTBGrow
  \/ AddTBLockAssign
  \/ AddTBStore
  \/ TbExecEndBegin
  \/ TbExecEndLock
  \/ TbExecEndSet
  \/ \E i \in TBIndices, pc \in PCs, m \in AccessLists : TbExecBegin(i, pc, m)
  \/ TbExecDecoded
  \/ TbExecRegions
  \/ TbExecLockQueue
  \/ TbExecEmplace
  \/ RecvNotify
ConsumerLocks ==
  \/ \E n \in 0..MaxN : FetchCall(n, MaxN, TRUE)
  \/ FetchLockQueue
  \/ FetchCheck
  \/ SpuriousWake
  \/ FetchWoken
  \/ FetchLockTBs
  \/ \E o \in OOBOutcomes : FetchSelect(o)
  \/ FetchLockTBsAgain
  \/ \E o \in OOBOutcomes : FetchDeliverLocked(o)
InitLocks == InitWith(<<>>, FALSE, DefaultMaxNumConn,
                      Limits(LockMsgs, LockFetches, TRUE, 0, TRUE, FALSE))
NextLocks == ReceiverLocks \/ ConsumerLocks
SpecLocks == InitLocks /\ [][NextLocks]_vars

\* The receiver of SpecConn, with clients that may send a frame the verifier
\* rejects and go on sending.
ReceiverReject ==
  \/ ReceiverConn
  \/ RecvReject
  \/ RecvSwallow
SpecReject == InitConn /\ [][ReceiverReject]_vars

\* The receiver with the region manifest, fed a TB whose code spans more
\* than 256 bytes, WideLen raw instructions of four 15-byte instructions
\* each run at 0x00 or 0x02, beside the TB of two instructions.
WideBlock == [k \in 1..WideLen |-> Raw60]
WidePrograms == {WideBlock, <<RawOne, RawOne>>}
WidePCs == {0, 2}
ReceiverWide ==
  \/ RecvAccept
  \/ RecvClose
  \/ \E i \in DecodeTBIndices, p \in WidePrograms : AddTBResize(i, p)
  \/ AddTBAssign
  \/ TbExecEnd
  \/ \E i \in DecodeTBIndices, pc \in WidePCs, m \in AccessLists : TbExec(i, pc, m)
  \/ TbExecPush
  \/ RecvNotify
InitWide == InitWith(ManifestRegions, FALSE, DefaultMaxNumConn,
                     Limits(WideMsgs, 0, FALSE, 0, TRUE, FALSE))
SpecWide == InitWide /\ [][ReceiverWide]_vars

\* the emulator registers every TB index once
InitFresh == InitWith(<<>>, FALSE, DefaultMaxNumConn, Limits(MaxMsgs, MaxFetches, FALSE, 0, TRUE, FALSE))
SpecFresh == InitFresh /\ [][Next]_vars

\* the consumer of MCAWorker: it starts when the receiver has finished and
\* calls fetchRegion with Size = MaxN again and again
InitDrain == InitWith(<<>>, FALSE, DefaultMaxNumConn,
                      Limits(DrainMsgs, -1, FALSE, MaxN, FALSE, TRUE))
SpecDrain == InitDrain /\ [][Next]_vars /\ Fairness /\ WF_vars(Consumer)

(***************************************************************************)
(* Properties                                                              *)
(***************************************************************************)
\* the chain a slice carries, empty for a null MemoryAccesses
ChainOf(s) == IF s.HasMA THEN s.MemoryAccesses ELSE <<>>
\* the number of instructions of TB Index that have been decoded
DecodedLen(Index) == IF Index < Len(TBs) THEN Len(TBs[Index + 1].MCInsts) ELSE 0

\* the TB index and the decoded index of an MCInst
InstPos(p) == <<p[1], p[3]>>

\* C1: the instructions written to MCIS over all fetches are, in order, the
\* instructions of the slices queued so far in the order they were queued:
\* nothing is delivered out of order, twice, or in place of a skipped one.
C1_DeliveredInPushOrder ==
  /\ Len(out) <= Len(pushed)
  /\ \A k \in 1..Len(out) : InstPos(out[k].inst) = InstPos(pushed[k].inst)

\* C2: a call with Size # 0 returns -1 only from a state in which the queue
\* is empty and IsEndOfStream is set.
C2_EndOnlyWhenDrained ==
  [][(cpc # "idle" /\ cpc' = "idle" /\ ret'.count = -1)
       => (TBQueue = <<>> /\ IsEndOfStream)]_vars

\* a call has returned -1 after instructions were queued and delivered
C2_Witness == ret.count = -1 /\ out # <<>> /\ TBQueue = <<>> /\ cpc = "idle"

\* C3: once IsEndOfStream is set and the receiver has finished, a consumer
\* that keeps calling fetchRegion with Size = MaxN is eventually returned -1.
C3_DrainReachesEnd ==
  (IsEndOfStream /\ rpc = "done") ~> (cpc = "idle" /\ ret.count = -1)

\* the consumer is inside QueueCV.wait
InWait == cpc \in {"prewait", "wait", "woken"}

\* C4: a call that finds the queue empty and IsEndOfStream false blocks, and
\* a blocked call returns once the queue is non-empty or IsEndOfStream is set.
C4_NoLostWakeup ==
  /\ [][(cpc = "lock" /\ cpc' # "lock" /\ TBQueue = <<>> /\ ~IsEndOfStream)
          => cpc' = "prewait"]_vars
  /\ ((InWait /\ (TBQueue # <<>> \/ IsEndOfStream)) ~> cpc = "idle")

\* a call that blocked has been woken by a push and has returned instructions
C4_Witness == cpc = "idle" /\ hist.waits > 0 /\ ret.count > 0 /\ out # <<>>

\* one fetchRegion call of Size instructions on a quiet queue Q: the queue it
\* leaves, the instructions it writes and the count it returns
FetchOnQueue(tbs, Q, Size) ==
  LET sl == SelectLoop(tbs, Q, Size, <<>>)
      d == DeliverLoop(tbs, sl.Selected, FALSE,
             [Size |-> Size, TotalNumTraces |-> 0, delivered |-> <<>>, oob |-> 0])
  IN [Queue |-> sl.Queue,
      insts |-> [k \in 1..Len(d.delivered) |-> d.delivered[k].inst],
      count |-> Size - d.Size]

RECURSIVE RepeatFetchOne(_, _, _, _)
\* k successive fetchRegion calls of one instruction each, starting from
\* queue Q; acc gathers the instructions written and the counts returned
RepeatFetchOne(tbs, Q, k, acc) ==
  IF k = 0 THEN acc
  ELSE LET f == FetchOnQueue(tbs, Q, 1)
       IN RepeatFetchOne(tbs, f.Queue, k - 1,
            [insts |-> acc.insts \o f.insts, counts |-> Append(acc.counts, f.count)])

RECURSIVE QueuedCount(_, _)
\* the number of instructions the slices of Q stand for
QueuedCount(tbs, Q) ==
  IF Q = <<>> THEN 0
  ELSE Len(SliceInsts(tbs, Q[1])) + QueuedCount(tbs, Tail(Q))

\* the queue is at rest, holds instructions and no region-end marker
QuietQueue ==
  /\ cpc = "idle"
  /\ rpc = "read"
  /\ TBQueue # <<>>
  /\ \A k \in 1..Len(TBQueue) : TBQueue[k].Region = 0 /\ ValidIndex(TBQueue[k].Index)
  /\ QueuedCount(TBs, TBQueue) >= 1

\* C5: on a quiet queue holding N instructions, N calls of fetch(1) write the
\* same instruction sequence as one call of fetch(N), and each returns 1.
C5_FetchOneEqualsFetchAll ==
  QuietQueue =>
    LET N == QueuedCount(TBs, TBQueue)
        all == FetchOnQueue(TBs, TBQueue, N)
        one == RepeatFetchOne(TBs, TBQueue, N, [insts |-> <<>>, counts |-> <<>>])
    IN /\ one.insts = all.insts
       /\ \A k \in 1..N : one.counts[k] = 1

\* C6: every queued slice has 0 <= BeginIdx < EndIdx <= the number of
\* decoded instructions of its TB.
C6_SliceBounds ==
  \A q \in 1..Len(TBQueue) :
    LET s == TBQueue[q]
    IN 0 <= s.BeginIdx /\ s.BeginIdx < s.EndIdx /\ s.EndIdx <= DecodedLen(s.Index)

\* C7: the memory-access chain of every queued slice is strictly increasing
\* by instruction index and every index lies in [BeginIdx, EndIdx).
C7_ChainSortedInRange ==
  \A q \in 1..Len(TBQueue) :
    LET s == TBQueue[q]
        c == ChainOf(s)
    IN /\ \A k \in 1..(Len(c) - 1) : c[k].first < c[k + 1].first
       /\ \A k \in 1..Len(c) : s.BeginIdx <= c[k].first /\ c[k].first < s.EndIdx

\* C8: a delivered instruction of a queued slice is published with exactly
\* the memory access the ExecTB recorded for its index, in the fetch call
\* that delivers it (every call here passes a metadata exchanger).
C8_AccessDeliveredWithInst ==
  \A k \in 1..Len(out) :
    (k <= Len(pushed) /\ out[k].inst = pushed[k].inst) => out[k].ma = pushed[k].ma

\* the split points fetchRegion can ask of the head slice
HeadSplitPoints ==
  IF TBQueue = <<>> THEN {}
  ELSE LET s == TBQueue[1]
           SliceLen == Min2(DecodedLen(s.Index), SliceSize(s))
       IN {s.BeginIdx + S : S \in {S \in 1..MaxN : SliceLen > S}}

DeliveredOf(Sel, n) ==
  DeliverLoop(TBs, Sel, TRUE, [Size |-> n, TotalNumTraces |-> 0,
                               delivered |-> <<>>, oob |-> 0]).delivered

\* C9: a split of the head slice at p gives the front the entries below p and
\* leaves the entries at or above p with the remainder, and delivering front
\* and remainder is delivering the unsplit slice.
C9_SplitPartitionsChain ==
  \A p \in HeadSplitPoints :
    LET s == TBQueue[1]
        sp == split(s, p)
        below(e) == e.first < p
        atOrAbove(e) == e.first >= p
        n == DecodedLen(s.Index)
    IN /\ ChainOf(sp.New) = SelectSeq(ChainOf(s), below)
       /\ ChainOf(sp.Rest) = SelectSeq(ChainOf(s), atOrAbove)
       /\ DeliveredOf(<<sp.New, sp.Rest>>, n) = DeliveredOf(<<s>>, n)

\* C10: once IsEndOfStream is true no step makes the queue longer.
C10_NoPushAfterEndOfStream ==
  [][IsEndOfStream => Len(TBQueue') <= Len(TBQueue)]_vars


\* the slices a call has selected: cloc.SelectedSlices between selection and delivery
Selected == cloc.SelectedSlices

\* C11: a call selects nothing past a slice that carries a region-end marker,
\* and it returns EndOfRegion with the region's description exactly when the
\* last slice it selected carries one.
C11_StopsAtRegionEnd ==
  /\ [](cpc = "deliver" =>
          \A k \in 1..Len(Selected) : Selected[k].Region # 0 => k = Len(Selected))
  /\ [][(cpc = "deliver" /\ cpc' = "idle") =>
          IF Selected # <<>> /\ Selected[Len(Selected)].Region # 0
          THEN /\ ret'.IsEnd
               /\ ret'.Description = BinRegions[Selected[Len(Selected)].Region].Description
          ELSE ~ret'.IsEnd /\ ret'.Description = ""]_vars

\* a call asking for two instructions has returned one, with EndOfRegion and
\* the description, and has left the slice queued after the closing instruction
C11_Witness ==
  /\ cpc = "idle" /\ hist.size = 2 /\ ret.count = 1
  /\ ret.IsEnd /\ ret.Description = "r1"
  /\ TBQueue # <<>>


RECURSIVE QueuedToRegionEnd(_, _)
\* the number of instructions the slices of Q stand for, up to and including
\* the first slice that carries a region-end marker
QueuedToRegionEnd(tbs, Q) ==
  IF Q = <<>> THEN 0
  ELSE Len(SliceInsts(tbs, Q[1]))
       + (IF Q[1].Region # 0 THEN 0 ELSE QueuedToRegionEnd(tbs, Tail(Q)))

\* the queue is at rest and not empty, whatever its head
RestingQueue ==
  /\ cpc = "idle"
  /\ rpc = "read"
  /\ TBQueue # <<>>
  /\ \A k \in 1..Len(TBQueue) : ValidIndex(TBQueue[k].Index)

\* C12: on a queue that is not empty, fetchRegion with Size = n returns
\* min(n, instructions queued up to and including the first region-ending slice).
C12_FetchReturnsMin ==
  RestingQueue =>
    \A n \in 1..MaxN :
      FetchOnQueue(TBs, TBQueue, n).count = Min2(n, QueuedToRegionEnd(TBs, TBQueue))


\* C13: a call with Size = 0 returns (0, not end of region) in the step that
\* makes it, and leaves the queue, the TB cache, the flags and the sequence
\* counter as they were.
C13_ZeroSizeReturnsAtOnce ==
  [][(hist'.fetches = hist.fetches + 1 /\ hist'.size = 0) =>
       /\ cpc' = "idle"
       /\ hist'.returns = hist.returns + 1
       /\ ret'.count = 0 /\ ~ret'.IsEnd /\ ret'.Description = ""
       /\ UNCHANGED <<TBQueue, TBs, TotalNumTraces, IsEndOfStream, CurBinRegion, QueueMutex>>]_vars

\* a call with Size = 0 was made on an empty queue with IsEndOfStream set,
\* and returned 0
C13_Witness ==
  /\ cpc = "idle" /\ hist.size = 0 /\ hist.atend /\ hist.returns = hist.fetches
  /\ ret.count = 0


\* the load-relative address of decoded instruction i of TB
InstAddr(TB, i) == TB.VAddr - CodeStartAddress + TB.VAddrOffsets[i + 1]

\* instruction i of TB is at the start address of some region
AtRegionStart(TB, i) ==
  \E r \in 1..Len(BinRegions) : BinRegions[r].StartAddr = InstAddr(TB, i)

\* i is the first instruction of TB at a region's start address, r that
\* region, and j the first instruction from i on at r's end address
EntersAndExits(TB, i, j, r) ==
  /\ TB.VAddr >= CodeStartAddress
  /\ i <= j
  /\ BinRegions[r].StartAddr = InstAddr(TB, i)
  /\ \A q \in 1..(r - 1) : BinRegions[q].StartAddr # InstAddr(TB, i)
  /\ \A k \in 0..(i - 1) : ~AtRegionStart(TB, k)
  /\ BinRegions[r].EndAddr = InstAddr(TB, j)
  /\ \A k \in i..(j - 1) : BinRegions[r].EndAddr # InstAddr(TB, k)

HalfOpenRegion == <<[Description |-> "r1", StartAddr |-> 16, EndAddr |-> 24]>>

C15_SkewOnlyWhenLonger ==
  \A k \in 1..Len(TBs) :
    TBs[k].has =>
      \A e \in 1..Len(TBs[k].SkewIndicies) :
        /\ Len(TBs[k].MCInsts) > Len(TBs[k].RawInsts)
        /\ TBs[k].SkewIndicies[e][2] >= TBs[k].SkewIndicies[e][1]


\* C16: a TB whose MCInsts is not empty keeps that MCInsts in every step.
C16_DecodedNeverReplaced ==
  [][\A k \in 1..Len(TBs) :
       (TBs[k].has /\ TBs[k].MCInsts # <<>>) =>
         (k <= Len(TBs') /\ TBs'[k].has /\ TBs'[k].MCInsts = TBs[k].MCInsts)]_vars


\* C17: the k-th instruction delivered carries sequence number k, the counter
\* equals the number of instructions delivered, and a memory access is
\* published under the number of its instruction: the numbers rise by one
\* from one delivery to the next and none is used twice.
C17_SequenceNumbersRise ==
  /\ TotalNumTraces = Len(out)
  /\ \A k \in 1..Len(out) : out[k].seq = k
  /\ \A k \in 1..Len(out), m \in 1..Len(out) : k < m => out[k].seq < out[m].seq

\* three instructions have been delivered by more than one call, a memory
\* access published with one of them
C17_Witness ==
  /\ Len(out) >= 3 /\ hist.returns >= 2 /\ cpc = "idle"
  /\ \E k \in 1..Len(out) : out[k].ma # <<>>


MaxOf(S) == CHOOSE x \in S : \A y \in S : x >= y

\* the instruction index a wire record stands for in TB
Translated(TB, r) == IF SkewCount(TB, r.Index) THEN SkewLookup(TB, r.Index) ELSE r.Index

\* the positions of F at which a run of records for one instruction begins
RunStarts(TB, F) ==
  {p \in 1..Len(F) : IF p = 1 THEN TRUE ELSE Translated(TB, F[p]) # Translated(TB, F[p - 1])}

\* the records of the run that begins at position p
RunFrom(TB, F, p) ==
  {q \in p..Len(F) : \A x \in (p + 1)..q : x \notin RunStarts(TB, F)}

\* the one entry a run of records is merged into
MergedEntry(TB, F, p) ==
  LET R == RunFrom(TB, F, p)
      lo == MinOf({F[x].VAddr : x \in R})
      hi == MaxOf({F[x].VAddr + F[x].Size : x \in R})
  IN [first |-> Translated(TB, F[p]),
      IsStore |-> \E x \in R : F[x].IsStore,
      Addr |-> lo, Size |-> hi - lo]

\* one entry for every run, in the order of the records
MergedRuns(TB, F) ==
  LET starts == RunStarts(TB, F)
      nth(k) == CHOOSE p \in starts : Cardinality({q \in starts : q <= p}) = k
  IN [k \in 1..Cardinality(starts) |-> MergedEntry(TB, F, nth(k))]

\* C18: the chain of an ExecTB holds one entry for every run of consecutive
\* records that stand for the same instruction, its IsStore the OR of the
\* run's flags and its range from the least start address to the greatest
\* end address; a store of 4 bytes at 0x20 followed by a load of 4 bytes at
\* 0x22 makes the entry (store, 0x20, 6).
C18_ConsecutiveRecordsMerged ==
  rpc = "push" =>
    LET TB == TBs[rloc.Slice.Index + 1]
        F == rloc.MemAccesses
    IN /\ rloc.Slice.HasMA = (F # <<>>)
       /\ rloc.Slice.MemoryAccesses = MergedRuns(TB, F)
       /\ (Len(F) >= 2 /\ F[1] = MemAccess(0, TRUE, 32, 4) /\ F[2] = MemAccess(0, FALSE, 34, 4))
            => rloc.Slice.MemoryAccesses[1] =
                 [first |-> 0, IsStore |-> TRUE, Addr |-> 32, Size |-> 6]

\* an ExecTB with three records, two of them for instruction 0, has been
\* turned into a chain of two entries
C18_Witness ==
  /\ rpc = "push"
  /\ Len(rloc.MemAccesses) = 3
  /\ Len(rloc.Slice.MemoryAccesses) = 2
  /\ rloc.Slice.MemoryAccesses[1].Size = 6


\* C19: an ExecTB for an index past the cache or for a slot never registered
\* queues nothing and hands nothing over to be queued, and leaves TBQueue,
\* IsEndOfStream, CurBinRegion and TBs as they were.
C19_InvalidExecDropped ==
  [][(/\ hist'.msgs = hist.msgs + 1
      /\ hist'.last[1] = "ExecTB"
      /\ ~ValidIndex(hist'.last[2])) =>
       /\ rpc' = "read"
       /\ UNCHANGED <<TBQueue, IsEndOfStream, CurBinRegion, TBs>>]_vars

\* the last message was an ExecTB for slot 0, inside the cache and never
\* registered, and the receiver is back at reading
C19_Witness ==
  /\ hist.last = <<"ExecTB", 0>>
  /\ Len(TBs) = 2 /\ ~TBs[1].has /\ TBs[2].has
  /\ rpc = "read" /\ TBQueue = <<>>


\* C20: started with limit N > 0 the receiver accepts at most N connections,
\* one at a time, and is done exactly when N have been closed, after which
\* it takes no step; started with limit 0 it is never done.
C20_ConnectionLimit ==
  /\ [](hist.conns - hist.closed \in {0, 1})
  /\ [](hist.configured > 0 =>
          /\ hist.conns <= hist.configured
          /\ MaxNumAcceptedConnection = hist.configured - hist.closed
          /\ (rpc = "done") = (hist.closed = hist.configured))
  /\ [](hist.configured = 0 => rpc # "done")
  /\ [][rpc = "done" => UNCHANGED <<rpc, hist, TBs, TBQueue, IsEndOfStream>>]_vars

\* started with limit 2, the receiver has closed its second connection and is done
C20_Witness ==
  /\ hist.configured = 2 /\ hist.conns = 2 /\ hist.closed = 2 /\ rpc = "done"


\* the number of slices of Q that carry a region-end marker
Markers(Q) == Cardinality({k \in 1..Len(Q) : Q[k].Region # 0})

\* the step is the selection of a fetchRegion call
Selects == cpc \in {"lock", "woken"} /\ cpc' = "deliver"
\* the step is the delivery and return of a fetchRegion call
Delivers == cpc = "deliver" /\ cpc' = "idle"

\* C21: a selection that splits a slice carrying a region-end marker takes a
\* front without marker and leaves the marker on the remainder at the head
\* of the queue; a marker leaves the broker only in a call that returns
\* EndOfRegion, one marker for one return, and the last instruction that
\* call writes is the closing instruction of the slice that carried it.
C21_RegionEndReportedOnce ==
  /\ [][Selects =>
          LET taken == Len(TBQueue) - Len(TBQueue')
              Sel == cloc'.SelectedSlices
          IN (TBQueue' # <<>> /\ TBQueue'[1] # TBQueue[taken + 1]
                /\ TBQueue[taken + 1].Region # 0) =>
               /\ Sel[Len(Sel)].Region = 0
               /\ TBQueue'[1].Region = TBQueue[taken + 1].Region
               /\ TBQueue'[1].EndIdx = TBQueue[taken + 1].EndIdx]_vars
  /\ [][Markers(TBQueue') + Markers(cloc'.SelectedSlices) =
          Markers(TBQueue) + Markers(cloc.SelectedSlices)
            + (IF rpc = "push" /\ rpc' = "notify" /\ rloc.Slice.Region # 0 THEN 1 ELSE 0)
            - (IF Delivers /\ ret'.IsEnd THEN 1 ELSE 0)]_vars
  /\ [][(Delivers /\ ret'.IsEnd) =>
          LET s == Selected[Len(Selected)]
          IN /\ Len(out') > Len(out)
             /\ InstPos(out'[Len(out')].inst) = <<s.Index, s.EndIdx - 1>>]_vars


C23_WholeBlockSlices ==
  /\ [][(/\ hist'.msgs = hist.msgs + 1
         /\ hist'.last[1] = "ExecTB"
         /\ ValidIndex(hist'.last[2])
         /\ Len(BinRegions) = 0) =>
          /\ rpc' = "push"
          /\ rloc'.Slice.Index = hist'.last[2]
          /\ rloc'.Slice.BeginIdx = 0
          /\ rloc'.Slice.EndIdx = Len(TBs'[hist'.last[2] + 1].MCInsts)
          /\ rloc'.Slice.Region = 0]_vars
  /\ [](ret.IsEnd => ret.count = -1)


\* the decoder refuses some bytes of RawInst: its instructions do not cover it
RawFails(RawInst) == DecOffset(RawInst.dec, Len(RawInst.dec)) < RawInst.len

\* the raw instructions of TB inside which the decoder fails, 0-based
FailingRaws(TB) == {k \in 0..(Len(TB.RawInsts) - 1) : RawFails(TB.RawInsts[k + 1])}

RECURSIVE DecodedUpTo(_, _)
\* the number of MCInsts the raw instructions 0..k of TB decode to
DecodedUpTo(TB, k) ==
  IF k < 0 THEN 0 ELSE DecodedUpTo(TB, k - 1) + Len(TB.RawInsts[k + 1].dec)

\* C24: a TB inside one of whose raw instructions the decoder fails holds the
\* MCInsts decoded up to the first failure and none from a later raw
\* instruction.
C24_DecodingStopsAtFailure ==
  \A t \in 1..Len(TBs) :
    (TBs[t].has /\ TBs[t].MCInsts # <<>> /\ FailingRaws(TBs[t]) # {}) =>
      Len(TBs[t].MCInsts) = DecodedUpTo(TBs[t], MinOf(FailingRaws(TBs[t])))


C26_WritesUnderMutex ==
  /\ [][TBs' # TBs => TBsMutex = "receiver"]_vars
  /\ [][(TBQueue' # TBQueue \/ IsEndOfStream' # IsEndOfStream) => QueueMutex # "free"]_vars
  /\ []~ReadsWhileWritten


\* the receiver is at a lock_guard, about to take the named mutex
RecvAcquiresTBs == rpc \in {"resizeLock", "assignLock"}
RecvAcquiresQueue == rpc \in {"endLock", "pushLock"}
\* the consumer is at a lock, or inside QueueCV.wait about to take QueueMutex again
ConsAcquiresQueue == cpc \in {"lock", "woken"}
ConsAcquiresTBs == cpc \in {"tbsLock", "tbsLock2"}

\* each thread is blocked on a mutex that the other one holds
Deadlocked ==
  /\ \/ RecvAcquiresTBs /\ TBsMutex = "consumer"
     \/ RecvAcquiresQueue /\ QueueMutex = "consumer"
  /\ \/ ConsAcquiresTBs /\ TBsMutex = "receiver"
     \/ ConsAcquiresQueue /\ QueueMutex = "receiver"

\* C30: the two threads never block each other for good: the receiver holds
\* neither mutex when it takes one and never holds both, the consumer takes
\* TBsMutex with QueueMutex held in the selection only and never takes
\* QueueMutex with TBsMutex held, and in no state does each wait for a mutex
\* that the other holds.
C30_NoDeadlock ==
  /\ ~Deadlocked
  /\ ~(QueueMutex = "receiver" /\ TBsMutex = "receiver")
  /\ (RecvAcquiresTBs \/ RecvAcquiresQueue) =>
       (QueueMutex # "receiver" /\ TBsMutex # "receiver")
  /\ ConsAcquiresQueue => (QueueMutex # "consumer" /\ TBsMutex # "consumer")
  /\ cpc = "tbsLock" => (QueueMutex = "consumer" /\ TBsMutex # "consumer")
  /\ cpc = "tbsLock2" => (QueueMutex # "consumer" /\ TBsMutex # "consumer")
  /\ TBsMutex = "consumer" => cpc \in {"select", "delivering", "crashed"}
  /\ QueueMutex = "consumer" => cpc \in {"check", "tbsLock", "select", "crashed"}

\* the consumer is in the selection with both mutexes held while the receiver,
\* in addTB for an index translated before, waits for TBsMutex
C30_Witness ==
  /\ cpc = "select" /\ QueueMutex = "consumer" /\ TBsMutex = "consumer"
  /\ rpc = "assignLock" /\ ValidIndex(rloc.Index)


\* the step hands a message to handleMetadata, addTB or tbExec
Dispatches ==
  /\ hist'.msgs = hist.msgs + 1
  /\ hist'.last[1] \in {"Metadata", "TranslatedBlock", "ExecTB", "End"}

\* C27: the step in which the verifier rejects a fully received frame closes
\* the connection, and leaves the receiver accepting when the connection
\* limit allows; no message of a connection is dispatched after one of its
\* frames was rejected.
C27_RejectClosesConnection ==
  /\ [][(hist'.msgs = hist.msgs + 1 /\ hist'.last[1] = "Rejected") =>
          /\ hist'.closed = hist.closed + 1
          /\ rpc' = IF hist.configured > 0 /\ hist'.closed = hist.configured
                    THEN "done" ELSE "accept"]_vars
  /\ [][rpc = "poisoned" => ~Dispatches]_vars


RECURSIVE TrueOffsets(_, _)
\* the byte distance from the start of a TB of each instruction decoded from
\* RawInsts, the first of which starts at distance at
TrueOffsets(RawInsts, at) ==
  IF RawInsts = <<>> THEN <<>>
  ELSE [j \in 1..Len(RawInsts[1].dec) |-> at + DecOffset(RawInsts[1].dec, j - 1)]
         \o TrueOffsets(Tail(RawInsts), at + RawInsts[1].len)

\* TB with every offset at its true value
WithTrueOffsets(TB) == [TB EXCEPT !.VAddrOffsets = TrueOffsets(TB.RawInsts, 0)]

\* C28: VAddrOffsets[i] of a translated TB is the byte distance of
\* instruction i from the start of the TB, whatever the length of the TB's
\* code, and the region tracker decides on a TB as it would on the
\* instructions' true addresses.
C28_OffsetsAreTrueDistances ==
  \A t \in 1..Len(TBs) :
    (TBs[t].has /\ TBs[t].MCInsts # <<>>) =>
      /\ TBs[t].VAddrOffsets = TrueOffsets(TBs[t].RawInsts, 0)
      /\ \A c \in 0..Len(BinRegions) :
           HandleRegions(TBs[t], BinRegions, c, CodeStartAddress)
             = HandleRegions(WithTrueOffsets(TBs[t]), BinRegions, c, CodeStartAddress)


\* the reads of MCInsts at or past its size that the delivery loop makes for
\* the slices selected by the fetchRegion call in progress
ReadsPastEnd ==
  DeliverLoop(TBs, cloc.SelectedSlices, cloc.MDE,
    [Size |-> cloc.Size, TotalNumTraces |-> TotalNumTraces,
     delivered |-> <<>>, oob |-> 0]).oob

\* C29: the delivery loop of fetchRegion never reads MCInsts[i] with i at or
\* past MCInsts.size(): every selected slice the loop enters begins below
\* min(MCInsts.size(), EndIdx), whatever was pushed, fetched and split before.
C29_ReadsWithinDecoded ==
  /\ hist.oob = 0
  /\ cpc = "deliver" =>
       /\ ReadsPastEnd = 0
       /\ \A k \in 1..Len(cloc.SelectedSlices) :
            LET Slice == cloc.SelectedSlices[k]
                End == Min2(Len(TBs[Slice.Index + 1].MCInsts), Slice.EndIdx)
            IN Slice.BeginIdx <= End


\* C31: a fetchRegion call with Size >= 1 and a buffer of at least one entry
\* that went on to select slices (it found the queue non-empty) and returns
\* has written at least one instruction: its count is never 0, whether the
\* head of the queue was a fresh slice, the remainder of a split or a slice
\* of a TB registered again since.
C31_ReturnDeliversSomething ==
  [][(cpc = "deliver" /\ cpc' = "idle" /\ cloc.TotalSize >= 1 /\ ret'.count # -1)
       => ret'.count >= 1]_vars

=============================================================================
